---- MODULE Spec2Model ----
(***************************************************************************)
(* FaaS gateway: node-selection policies, warm-state registry and the      *)
(* invocation workflow of api_gateway.                                     *)
(*                                                                         *)
(* The repository holds two generations of the gateway code side by side:  *)
(*   - api_gateway/main.py, the application with the HTTP handlers, which  *)
(*     carries its own RoundRobinPolicy, LeastUsedPolicy, write_metrics    *)
(*     and _run_ssh_command_async (build = "main");                        *)
(*   - api_gateway/policies.py, node_manager.py, metrics.py, state.py, the *)
(*     same classes split into modules, with the probing/RAM filter        *)
(*     (build = "modules").  The handlers are those of main.py; in this    *)
(*     build they call the module versions of the functions they name.     *)
(* Node names are modelled by their rank in sorted (lexicographic) order,  *)
(* function names by numbers.                                              *)
(***************************************************************************)
EXTENDS Integers, Sequences, FiniteSets, TLC

\* ---------------------------------------------------------------- bounds
NumNodes == 2
NumFuncs == 1
MaxTasks == 2          \* requests suspended at the same time
MaxRequests == 3       \* requests that open a coroutine, in one behaviour
ScenarioInvocations == 3
MaxDescs == 2            \* descriptors a name may be registered with
RaceIds == 2             \* values the eight characters of a uuid4 may take
HarnessNodes == 3      \* node names the policy specifications draw from

NodeNames == 1..NumNodes
FuncNames == 1..NumFuncs

\* ------------------------------------------------------ program constants
RAM_THRESHOLD == 90
CONCURRENCY_LIMIT == 5

Inf == 1000        \* float('inf')
Missing == -1      \* a field absent from the metrics payload
NA == -2           \* "N/A"
Dashes == -3       \* "---"
NoNode == 0        \* None as a node name

COLD == "cold"
PRE_WARMED == "pre-warmed"
WARMED == "warmed"

\* EXECUTION_MODE_MAP.get(mode, mode): value -> label, anything else unchanged
EXECUTION_MODE_MAP_get(mode) ==
    CASE mode = COLD -> "Cold"
      [] mode = PRE_WARMED -> "Pre-warmed"
      [] mode = WARMED -> "Warmed"
      [] OTHER -> mode

RRColdLabel == "Round Robin - Cold"
LUColdLabel == "Least Used - Cold"

\* 'Cold' if 'Cold' in mode else mode
Category(mode) ==
    IF mode \in {"Cold", RRColdLabel, LUColdLabel} THEN "Cold" ELSE mode

\* ------------------------------------------------------------ remote side
\* What the metrics command of a node gives back: a failure of the command or
\* of the connection, or a JSON payload whose fields may be missing.
FailReply == [ok |-> FALSE, cpu |-> Missing, ram |-> Missing]
OkReply(c, r) == [ok |-> TRUE, cpu |-> c, ram |-> r]

\* replies the gateway specification draws from
SysReplies == {FailReply, OkReply(5, 5), OkReply(10, 95)}

\* replies the policy specifications draw from
PolicyReplies ==
    {FailReply, OkReply(5, Missing)} \cup {OkReply(c, r) : c \in {5, 10, Missing}, r \in {5, 10, 95}}

\* replies the round-robin specification draws from
RRReplies == {FailReply, OkReply(5, 5), OkReply(10, 95), OkReply(5, Missing)}

\* outcome of a remote command: it ran and exited 0, it ran and exited non-zero,
\* or the connection failed
CmdOutcomes == {"ok", "nonzero", "connerr"}

\* run_ssh_command checks the exit status (check=True); _run_ssh_command_async
\* of main.py does not, so only a connection error raises there.
run_ssh_command_raises(b, outcome) ==
    IF b = "modules" THEN outcome # "ok" ELSE outcome = "connerr"

NoneMetrics == [some |-> FALSE, cpu_usage |-> 0, ram_usage |-> 0]

get_metrics_for_node_FailureAsIdle(reply) ==
    IF ~reply.ok
    THEN [some |-> TRUE, cpu_usage |-> 0, ram_usage |-> 0]
    ELSE [some |-> TRUE,
          cpu_usage |-> IF reply.cpu = Missing THEN Inf ELSE reply.cpu,
          ram_usage |-> IF reply.ram = Missing THEN Inf ELSE reply.ram]

get_metrics_for_node(reply) ==
    IF ~reply.ok
    THEN NoneMetrics
    ELSE [some |-> TRUE,
          cpu_usage |-> IF reply.cpu = Missing THEN Inf ELSE reply.cpu,
          ram_usage |-> IF reply.ram = Missing THEN Inf ELSE reply.ram]

\* ------------------------------------------------------------ metric entry
NoneEntry == [some |-> FALSE, Function |-> 0, Node |-> NoNode, cpu |-> NA, ram |-> NA, mode |-> ""]

MetricEntry(f, n, c, r, m) ==
    [some |-> TRUE, Function |-> f, Node |-> n, cpu |-> c, ram |-> r, mode |-> m]

\* result of a select_node of a scheduling policy: (node, metric_entry)
NoSelection == [node |-> NoNode, metric |-> NoneEntry]

Sorted_AsRegistered(s) == s

\* sorted(list(nodes.keys()))
Sorted(s) == SortSeq(s, LAMBDA a, b : a < b)

\* ---------------------------------------------------------- RoundRobinPolicy
\* The policy object: _nodes_cache and the position of itertools.cycle in it.
RRInit == [cache |-> <<>>, idx |-> 0]

RRRefresh_KeepPosition(rr, nodes) ==
    IF Sorted(nodes) # rr.cache
    THEN [cache |-> Sorted(nodes), idx |-> rr.idx % Len(nodes)]
    ELSE rr

\* if current_node_names != self._nodes_cache: new cache, new cycle
RRRefresh(rr, nodes) ==
    IF Sorted(nodes) # rr.cache THEN [cache |-> Sorted(nodes), idx |-> 0] ELSE rr

\* next(self.node_iterator)
RRPeek(rr) == rr.cache[rr.idx + 1]
RRAdvance_Stuck(rr) == rr
RRAdvance(rr) == [rr EXCEPT !.idx = (rr.idx + 1) % Len(rr.cache)]

\* main.py: no probe, no filter; one step of the cycle per call
Main_RoundRobinPolicy_select_node(rr, nodes, f) ==
    IF nodes = <<>>
    THEN [sel |-> NoSelection, rr |-> rr]
    ELSE LET r1 == RRRefresh(rr, nodes)
         IN [sel |-> [node |-> RRPeek(r1),
                      metric |-> MetricEntry(f, RRPeek(r1), NA, NA, RRColdLabel)],
             rr |-> RRAdvance(r1)]

\* policies.py: metrics and metrics.get('ram_usage', 100.0) < state.RAM_THRESHOLD
RREligible(m) == m.some /\ m.ram_usage < RAM_THRESHOLD

\* ----------------------------------------------------------- LeastUsedPolicy
\* live metrics in the order of nodes.keys(), the unreachable nodes dropped
get_all_node_metrics(nodes, replies) ==
    SelectSeq([i \in 1..Len(nodes) |->
                  [name |-> nodes[i], m |-> get_metrics_for_node(replies[i])]],
              LAMBDA e : e.m.some)

LUEligible_Any(e) == TRUE

LUEligible(e) == e.m.ram_usage < RAM_THRESHOLD

LUKey(e) == e.m.cpu_usage

\* min(eligible_nodes, key=...): the first element with the least key
FirstMinIndex(s) ==
    CHOOSE i \in 1..Len(s) :
        /\ \A j \in 1..Len(s) : LUKey(s[i]) <= LUKey(s[j])
        /\ \A j \in 1..(i - 1) : LUKey(s[j]) > LUKey(s[i])

\* policies.py
LeastUsedPolicy_select_node(nodes, replies, f) ==
    IF nodes = <<>>
    THEN NoSelection
    ELSE LET all_node_metrics == get_all_node_metrics(nodes, replies)
             eligible_nodes == SelectSeq(all_node_metrics, LUEligible)
         IN IF all_node_metrics = <<>> \/ eligible_nodes = <<>>
            THEN NoSelection
            ELSE LET e == eligible_nodes[FirstMinIndex(eligible_nodes)]
                 IN [node |-> e.name,
                     metric |-> MetricEntry(f, e.name, e.m.cpu_usage, e.m.ram_usage, LUColdLabel)]

\* (cpu_usage + ram_usage) / 2, kept doubled to stay in the integers; inf
\* absorbs the sum
InfLoad == 2 * Inf
Load2(m) ==
    IF m.cpu_usage = Inf \/ m.ram_usage = Inf THEN InfLoad ELSE m.cpu_usage + m.ram_usage

\* main.py: the loop "if current_load < min_load" from min_load = inf
RECURSIVE Main_LU_loop(_, _, _, _)
Main_LU_loop(node_metrics, i, min_load, selected) ==
    IF i > Len(node_metrics)
    THEN selected
    ELSE IF Load2(node_metrics[i].m) < min_load
         THEN Main_LU_loop(node_metrics, i + 1, Load2(node_metrics[i].m), i)
         ELSE Main_LU_loop(node_metrics, i + 1, min_load, selected)

Main_LeastUsedPolicy_select_node(nodes, replies, f) ==
    IF nodes = <<>>
    THEN NoSelection
    ELSE LET node_metrics == get_all_node_metrics(nodes, replies)
             k == Main_LU_loop(node_metrics, 1, InfLoad, 0)
         IN IF node_metrics = <<>> \/ k = 0
            THEN NoSelection
            ELSE [node |-> node_metrics[k].name,
                  metric |-> MetricEntry(f, node_metrics[k].name,
                                         node_metrics[k].m.cpu_usage,
                                         node_metrics[k].m.ram_usage, LUColdLabel)]

\* policies.py, one iteration of "for _ in range(nodes_to_check)" after the
\* probe of selected_node came back: the node and its entry, or no selection
RRJudge(selected_node, reply, f) ==
    LET metrics == get_metrics_for_node(reply)
    IN IF RREligible(metrics)
       THEN [node |-> selected_node,
             metric |-> MetricEntry(f, selected_node, metrics.cpu_usage,
                                    metrics.ram_usage, RRColdLabel)]
       ELSE NoSelection

\* policies.py, the loop run by one caller with nothing in between
RECURSIVE RR_loop(_, _, _, _)
RR_loop(rr, nodes_to_check, replyOf, f) ==
    IF nodes_to_check = 0
    THEN [sel |-> NoSelection, rr |-> rr]
    ELSE LET got == RRJudge(RRPeek(rr), replyOf[RRPeek(rr)], f)
         IN IF got.node # NoNode
            THEN [sel |-> got, rr |-> RRAdvance(rr)]
            ELSE RR_loop(RRAdvance(rr), nodes_to_check - 1, replyOf, f)

RoundRobinPolicy_select_node(rr, nodes, replyOf, f) ==
    IF nodes = <<>>
    THEN [sel |-> NoSelection, rr |-> rr]
    ELSE RR_loop(RRRefresh(rr, nodes), Len(nodes), replyOf, f)

\* ------------------------------------------------------------------ state
VARIABLES
    build,                    \* "main" | "modules": which generation of the code runs
    scheduler,                \* DEFAULT_SCHEDULING_POLICY: "RoundRobin" | "LeastUsed"
    warming_type,             \* WARMING_TYPE
    function_registry,        \* the registered function names
    node_registry,            \* the registered node names, in registration order
    function_info,            \* function name -> its descriptor (0: not registered)
    node_info,                \* node name -> its descriptor (0: not registered)
    function_state_registry,  \* function -> its (node, state) entries, in insertion order
    metrics_log,              \* the records appended so far
    standing,                 \* names of the standing containers on the nodes
    rr,                       \* the RoundRobinPolicy object
    task,                     \* the requests: idle, suspended at an await, or done
    done,                     \* the requests answered last, the latest at the end
    limits,                   \* how many answers are kept, how many requests are made
    started,                  \* requests that opened a coroutine so far
    hist,                     \* policy harness: the selections made so far
    call                      \* policy harness: the last LeastUsedPolicy call

vars == <<build, scheduler, warming_type, function_registry, node_registry,
          function_info, node_info, standing, function_state_registry, metrics_log, rr, task, done, limits, started, hist, call>>

gatewayVars == <<warming_type, function_registry, function_info, node_info, standing,
                 function_state_registry, metrics_log, task, done, limits, started>>

config == <<build, scheduler, warming_type, limits, hist, call>>

infos == <<function_info, node_info>>

Builds == {"main", "modules"}

\* every list of distinct names among 1..n: a registry in some registration order
RECURSIVE DistinctSeqs(_, _)
DistinctSeqs(n, k) ==
    IF k = 0 THEN {<<>>}
    ELSE {Append(s, m) : s \in DistinctSeqs(n, k - 1), m \in 1..n} \ 
         {s \in {Append(s, m) : s \in DistinctSeqs(n, k - 1), m \in 1..n} :
              \E i, j \in 1..k : i < j /\ s[i] = s[j]}
HarnessNodeSeqs == UNION {DistinctSeqs(HarnessNodes, k) : k \in 0..HarnessNodes}

\* what the harness remembers of the selections made: the names passed to the
\* last one, whether they differed from those of the one before, the cursor
\* before it, its result, and the results of the latest selections made in a
\* row over these names with every node passing the filter
NoHist == [names |-> <<>>, changed |-> FALSE, prevIdx |-> 0, node |-> NoNode,
           firstPassing |-> NoNode, run |-> <<>>]

LastN(s, n) == IF Len(s) <= n THEN s ELSE SubSeq(s, Len(s) - n + 1, Len(s))

NoCall == [nodes |-> <<>>, replies |-> <<>>, result |-> NoSelection, made |-> FALSE]

\* ------------------------------------------- LeastUsedPolicy on drawn inputs
LUInit ==
    /\ build \in Builds
    /\ scheduler = "LeastUsed"
    /\ warming_type = COLD
    /\ function_registry = {}
    /\ node_registry = <<>>
    /\ function_state_registry = [f \in FuncNames |-> <<>>]
    /\ metrics_log = <<>>
    /\ rr = RRInit
    /\ task = << >>
    /\ done = << >>
    /\ limits = [keep |-> 0, requests |-> 0, descs |-> 0,
                 ids |-> 0]
    /\ started = 0
    /\ function_info = [f \in FuncNames |-> 0]
    /\ node_info = [n \in NodeNames |-> 0]
    /\ standing = {}
    /\ hist = NoHist
    /\ call = NoCall

LU_select_node(b, nodes, replies, f) ==
    IF b = "modules"
    THEN LeastUsedPolicy_select_node(nodes, replies, f)
    ELSE Main_LeastUsedPolicy_select_node(nodes, replies, f)

LUSelect ==
    /\ ~call.made
    /\ \E nodes \in HarnessNodeSeqs :
         \E replies \in [1..Len(nodes) -> PolicyReplies] :
            call' = [nodes |-> nodes, replies |-> replies,
                     result |-> LU_select_node(build, nodes, replies, 1),
                     made |-> TRUE]
    /\ UNCHANGED <<build, scheduler, rr, node_registry, hist, gatewayVars>>

LUNext == LUSelect

SpecLU == LUInit /\ [][LUNext]_vars

\* --------------------------------------- RoundRobinPolicy under a single caller
RRHarnessInit ==
    /\ build \in Builds
    /\ scheduler = "RoundRobin"
    /\ warming_type = COLD
    /\ function_registry = {}
    /\ node_registry = <<>>
    /\ function_state_registry = [f \in FuncNames |-> <<>>]
    /\ metrics_log = <<>>
    /\ rr = RRInit
    /\ task = << >>
    /\ done = << >>
    /\ limits = [keep |-> 0, requests |-> 0, descs |-> 0,
                 ids |-> 0]
    /\ started = 0
    /\ function_info = [f \in FuncNames |-> 0]
    /\ node_info = [n \in NodeNames |-> 0]
    /\ standing = {}
    /\ hist = NoHist
    /\ call = NoCall

RR_select_node(b, r, nodes, replyOf, f) ==
    IF b = "modules"
    THEN RoundRobinPolicy_select_node(r, nodes, replyOf, f)
    ELSE Main_RoundRobinPolicy_select_node(r, nodes, f)

\* what the filter of this build lets through
Passes(b, reply) == b = "main" \/ (reply.ok /\ reply.ram # Missing /\ reply.ram < RAM_THRESHOLD)

FirstPassing(b, names, replyOf) ==
    IF \E i \in 1..Len(names) : Passes(b, replyOf[names[i]])
    THEN names[CHOOSE i \in 1..Len(names) :
                   /\ Passes(b, replyOf[names[i]])
                   /\ \A j \in 1..(i - 1) : ~Passes(b, replyOf[names[j]])]
    ELSE NoNode

\* one select_node call of the only caller, over any node dictionary
RRSelect ==
    /\ \E nodes \in HarnessNodeSeqs :
         \E replyOf \in [1..HarnessNodes -> RRReplies] :
            LET res == RR_select_node(build, rr, nodes, replyOf, 1)
                allPass == \A i \in 1..Len(nodes) : Passes(build, replyOf[nodes[i]])
                changed == Sorted(nodes) # hist.names
            IN /\ rr' = res.rr
               /\ hist' = IF nodes = <<>> THEN hist
                          ELSE [names |-> Sorted(nodes),
                                changed |-> changed,
                                prevIdx |-> rr.idx,
                                node |-> res.sel.node,
                                firstPassing |-> FirstPassing(build, Sorted(nodes), replyOf),
                                run |-> IF ~allPass THEN <<>>
                                        ELSE IF changed THEN <<res.sel.node>>
                                        ELSE LastN(Append(hist.run, res.sel.node), Len(nodes))]
    /\ UNCHANGED <<build, scheduler, node_registry, call, gatewayVars>>

RRHarnessNext == RRSelect

SpecRR == RRHarnessInit /\ [][RRHarnessNext]_vars

\* ------------------------------------------------------- scheduling chain
\* first node of function_state_registry[function_name].items() in state st
HasState(entries, st) == \E i \in 1..Len(entries) : entries[i].state = st
FirstWithState(entries, st) ==
    entries[CHOOSE i \in 1..Len(entries) :
                /\ entries[i].state = st
                /\ \A j \in 1..(i - 1) : entries[j].state # st].node

Delegate == [hit |-> FALSE, node |-> NoNode, mode |-> ""]

PreWarmedFirstPolicy_MissAlways(entries) == Delegate

\* a PRE_WARMED node of the function, or the delegation to DefaultColdPolicy
PreWarmedFirstPolicy_select_node(entries) ==
    IF HasState(entries, PRE_WARMED)
    THEN [hit |-> TRUE, node |-> FirstWithState(entries, PRE_WARMED), mode |-> PRE_WARMED]
    ELSE Delegate

WarmedFirstPolicy_PreWarmedFirst(entries) ==
    IF HasState(entries, PRE_WARMED)
    THEN [hit |-> TRUE, node |-> FirstWithState(entries, PRE_WARMED), mode |-> PRE_WARMED]
    ELSE IF HasState(entries, WARMED)
         THEN [hit |-> TRUE, node |-> FirstWithState(entries, WARMED), mode |-> WARMED]
         ELSE Delegate

\* a WARMED node of the function, or what PreWarmedFirstPolicy answers
WarmedFirstPolicy_select_node(entries) ==
    IF HasState(entries, WARMED)
    THEN [hit |-> TRUE, node |-> FirstWithState(entries, WARMED), mode |-> WARMED]
    ELSE PreWarmedFirstPolicy_select_node(entries)

DefaultColdPolicy_NoCheck(sel) ==
    [raise |-> FALSE, node |-> sel.node, metric |-> sel.metric, mode |-> sel.metric.mode]

\* DefaultColdPolicy.select_node once the scheduler has answered: 503 on no
\* node, else the node, its entry and the entry's "Execution Mode"
DefaultColdPolicy_select_node(sel) ==
    IF sel.node = NoNode
    THEN [raise |-> TRUE, node |-> NoNode, metric |-> NoneEntry, mode |-> ""]
    ELSE [raise |-> FALSE, node |-> sel.node, metric |-> sel.metric, mode |-> sel.metric.mode]

\* function_state_registry[function_name][node_name] = st
SetState(entries, n, st) ==
    IF \E i \in 1..Len(entries) : entries[i].node = n
    THEN [i \in 1..Len(entries) |->
             IF entries[i].node = n THEN [node |-> n, state |-> st] ELSE entries[i]]
    ELSE Append(entries, [node |-> n, state |-> st])

\* the state of (f, n): absent means cold
StateOf(f, n) ==
    IF \E i \in 1..Len(function_state_registry[f]) : function_state_registry[f][i].node = n
    THEN function_state_registry[f][CHOOSE i \in 1..Len(function_state_registry[f]) :
                                        function_state_registry[f][i].node = n].state
    ELSE COLD

LogRecord_KeepEntryMode(metric, execution_mode) == metric

\* the record write_metrics / log_invocation_metrics appends
LogRecord(metric, execution_mode) ==
    [metric EXCEPT !.mode = EXECUTION_MODE_MAP_get(execution_mode)]

\* the entry built when the scheduling stage gave none: the probe's values or "---"
ProbedEntry(f, n, reply) ==
    LET metrics == get_metrics_for_node(reply)
    IN MetricEntry(f, n,
                   IF metrics.some THEN metrics.cpu_usage ELSE Dashes,
                   IF metrics.some THEN metrics.ram_usage ELSE Dashes, "")

\* ---------------------------------------------------------------- requests
\* A request is a coroutine: it holds a slot of task while it is suspended at
\* an await, and moves to done when it is answered.
IdleTask ==
    [kind |-> "none", pc |-> "idle", f |-> 0, node |-> NoNode, mode |-> "",
     metric |-> NoneEntry, left |-> 0, snap |-> <<>>, outcome |-> "", execs |-> 0,
     obs |-> <<>>, consulted |-> FALSE, polNone |-> FALSE, skips |-> FALSE,
     remote |-> "", desc |-> 0, docker |-> "", slot |-> FALSE, uuid |-> 0,
     cname |-> <<>>, probed |-> {}]

Tasks == DOMAIN task
InFlight(t) == task[t].pc # "idle"
NextTask(t) == task[t].pc = "idle" /\ \A u \in Tasks : u < t => task[u].pc # "idle"

Finish_Suspended(rec, outcome) ==
    [rec EXCEPT !.pc = "suspended", !.outcome = outcome]

\* the coroutine returns or raises: the request is answered
Finish(rec, outcome) ==
    [rec EXCEPT !.pc = "done", !.outcome = outcome, !.metric = NoneEntry,
                !.left = 0, !.snap = <<>>, !.probed = {}]

\* what the caller of an answered request receives: the HTTP status of the
\* handler, or the value the node_manager function returns (always None)
Reply(kind, outcome) ==
    IF kind \in {"prewarm", "warmup"} THEN "None"
    ELSE IF outcome = "AlreadyExists" THEN "400"
    ELSE IF kind # "invoke" THEN "200"
    ELSE CASE outcome = "NotFound" -> "404"
           [] outcome = "NoNodesAvailable" -> "503"
           [] outcome = "ExecutionFailed" -> "500"
           [] OTHER -> "200"

\* the slot of request t after a step: rec, or free once rec is answered
Put(t, rec) ==
    /\ task' = [task EXCEPT ![t] = IF rec.pc = "done" THEN IdleTask ELSE rec]
    /\ done' = IF rec.pc = "done" THEN LastN(Append(done, rec), limits.keep) ELSE done

function_not_found_Never(f) == FALSE

\* function_name not in function_registry
function_not_found(f) == f \notin function_registry

\* docker exec in the standing container for WARMED, docker run --rm otherwise
DockerCommand(mode) == IF mode = WARMED THEN "exec" ELSE "run"

\* Container names, without CONTAINER_PREFIX: <function>--<suffix>. A node name
\* and the eight characters cut from a uuid4 are both strings, so a suffix is
\* one value whichever it comes from.
warmup_container_name(f, n) == <<f, n>>

exec_container_name_Fresh(f, n) == <<f, n + NumNodes>>

\* f"{CONTAINER_PREFIX}{function_name}--{node_name}" of the docker exec
exec_container_name(f, n) == <<f, n>>

\* f"{CONTAINER_PREFIX}{function_name}--{unique_id}" of the docker run --rm
run_container_name(f, unique_id) == <<f, unique_id>>

\* the name the execution command of rec is given
ContainerName(rec, mode, node) ==
    IF mode = WARMED THEN exec_container_name(rec.f, node)
    ELSE run_container_name(rec.f, rec.uuid)

\* the commands warmup_function_on_node sends to the node: the docker run -d
warmup_commands == <<"run -d">>

\* docker run -d --name refuses a name in use, unless the commands sent
\* before it removed the container of that name
NameInUse(name, cmds) ==
    /\ name \in standing
    /\ ~\E i, j \in 1..Len(cmds) : i < j /\ cmds[i] = "rm -f" /\ cmds[j] = "run -d"

AfterFailure_Retry(rec) == [rec EXCEPT !.execs = @ + 1]

\* except Exception: the handler answers HTTP 500 and does nothing else
AfterFailure(rec) == Finish(rec, "ExecutionFailed")

StateAfterInvocation_Revert(registry, rec) ==
    [registry EXCEPT ![rec.f] =
        [i \in 1..Len(@) |-> IF @[i].node = rec.node
                              THEN [node |-> rec.node, state |-> COLD] ELSE @[i]]]

\* function_state_registry once invoke_function has run for rec: the handler
\* has no statement that writes it
StateAfterInvocation(registry, rec) == registry

\* admission slots held: invoke_function acquires none
HeldSlots == Cardinality({t \in DOMAIN task : task[t].slot})

\* request t opens a coroutine, which runs to its first await (or its answer)
Open(t, rec) ==
    /\ NextTask(t)
    /\ started < limits.requests
    /\ started' = started + 1
    /\ Put(t, rec)

\* the coroutine goes on with the node the scheduler answered (or none)
\*  - invoke_function: DefaultColdPolicy, then the docker run command
\*  - StaticWarmingPolicy.apply: the warming command on the node, if any
Selected(rec, sel) ==
    IF rec.kind = "invoke"
    THEN LET d == DefaultColdPolicy_select_node(sel)
             seen == [rec EXCEPT !.polNone = (sel.node = NoNode)]
         IN IF d.raise
            THEN Finish([seen EXCEPT !.node = NoNode], "NoNodesAvailable")
            ELSE [seen EXCEPT !.pc = "exec", !.node = d.node, !.metric = d.metric,
                              !.mode = d.mode, !.execs = @ + 1, !.left = 0, !.snap = <<>>,
                              !.probed = {},
                              !.docker = DockerCommand(d.mode),
                              !.cname = ContainerName(rec, d.mode, d.node)]
    ELSE IF sel.node = NoNode
         THEN Finish([rec EXCEPT !.node = NoNode], "NoNode")
         ELSE [rec EXCEPT !.pc = "warm_ssh", !.node = sel.node, !.left = 0, !.snap = <<>>,
                          !.probed = {}]

\* scheduler.select_node(node_registry, f) up to its first await
StartSelect(rec) ==
    IF scheduler = "RoundRobin" /\ build = "main"
    THEN LET r == Main_RoundRobinPolicy_select_node(rr, node_registry, rec.f)
         IN [rec |-> Selected(rec, r.sel), rr |-> r.rr]
    ELSE IF node_registry = <<>>
    THEN [rec |-> Selected(rec, NoSelection), rr |-> rr]
    ELSE IF scheduler = "RoundRobin"
    THEN LET r1 == RRRefresh(rr, node_registry)
         IN [rec |-> [rec EXCEPT !.pc = "rr_probe", !.node = RRPeek(r1),
                                 !.left = Len(node_registry), !.snap = Sorted(node_registry)],
             rr |-> RRAdvance(r1)]
    ELSE [rec |-> [rec EXCEPT !.pc = "gather", !.snap = node_registry], rr |-> rr]

Init ==
    /\ build \in Builds
    /\ scheduler \in {"RoundRobin", "LeastUsed"}
    /\ warming_type \in {COLD, PRE_WARMED, WARMED}
    /\ function_registry = {}
    /\ node_registry = <<>>
    /\ function_state_registry = [f \in FuncNames |-> <<>>]
    /\ metrics_log = <<>>
    /\ rr = RRInit
    /\ task = [t \in 1..MaxTasks |-> IdleTask]
    /\ done = <<>>
    /\ limits = [keep |-> 1, requests |-> MaxRequests, descs |-> 1,
                 ids |-> 1]
    /\ started = 0
    /\ function_info = [f \in FuncNames |-> 0]
    /\ node_info = [n \in NodeNames |-> 0]
    /\ standing = {}
    /\ hist = NoHist
    /\ call = NoCall

StoreDescriptor_Overwrite(info, name, d) == [info EXCEPT ![name] = d]

\* registry[req.name] = {...} unless the name is there already (400)
StoreDescriptor(info, name, d) ==
    IF info[name] # 0 THEN info ELSE [info EXCEPT ![name] = d]

\* the answer of a registration that opens no coroutine
Registration(kind, f, n, d, present) ==
    [IdleTask EXCEPT !.kind = kind, !.f = f, !.node = n, !.desc = d, !.pc = "done",
                     !.outcome = IF present THEN "AlreadyExists" ELSE "ok"]

\* POST /nodes/register
register_node ==
    /\ \E n \in NodeNames, d \in 1..limits.descs :
         LET present == \E i \in 1..Len(node_registry) : node_registry[i] = n
         IN /\ node_registry' = IF present THEN node_registry ELSE Append(node_registry, n)
            /\ node_info' = StoreDescriptor(node_info, n, d)
            /\ done' = LastN(Append(done, Registration("register_node", 0, n, d, present)),
                             limits.keep)
    /\ UNCHANGED <<config, standing, function_registry, function_info, function_state_registry,
                   metrics_log, rr, task, started>>

\* POST /functions/register: the registration, then SCHEDULING_POLICY.apply
register_function ==
    \E f \in FuncNames, d \in 1..limits.descs :
        /\ function_info' = StoreDescriptor(function_info, f, d)
        /\ IF f \in function_registry \/ warming_type = COLD
           THEN /\ function_registry' = function_registry \cup {f}
                /\ done' = LastN(Append(done, Registration("register", f, NoNode, d,
                                                           f \in function_registry)),
                                 limits.keep)
                /\ UNCHANGED <<config, standing, node_registry, node_info, function_state_registry,
                               metrics_log, rr, task, started>>
           ELSE \E t \in Tasks :
                  /\ function_registry' = function_registry \cup {f}
                  /\ LET s == StartSelect([IdleTask EXCEPT !.kind = "register", !.f = f,
                                                           !.desc = d])
                     IN /\ Open(t, s.rec)
                        /\ rr' = s.rr
                  /\ UNCHANGED <<config, standing, node_registry, node_info, function_state_registry,
                                 metrics_log>>

not_registered_Skip(f, n) == FALSE

\* function_name not in function_registry or node_name not in node_registry
not_registered(f, n) ==
    \/ f \notin function_registry
    \/ ~\E i \in 1..Len(node_registry) : node_registry[i] = n

\* prewarm_function_on_node / warmup_function_on_node called for (f, n)
warm_function_on_node ==
    \E t \in Tasks, f \in FuncNames, n \in NodeNames, k \in {"prewarm", "warmup"} :
        /\ Open(t, IF not_registered(f, n)
                   THEN Finish([IdleTask EXCEPT !.kind = k, !.f = f], "NotFound")
                   ELSE [IdleTask EXCEPT !.kind = k, !.f = f, !.node = n, !.pc = "warm_ssh"])
        /\ UNCHANGED <<config, standing, infos, function_registry, node_registry,
                       function_state_registry, metrics_log, rr>>

WarmOp(rec) ==
    IF rec.kind = "prewarm" THEN PRE_WARMED
    ELSE IF rec.kind = "warmup" THEN WARMED
    ELSE warming_type

\* the docker pull / docker run -d command comes back
warm_return ==
    \E t \in Tasks, outcome \in CmdOutcomes :
        /\ task[t].pc = "warm_ssh"
        /\ LET name == warmup_container_name(task[t].f, task[t].node)
               starts == WarmOp(task[t]) = WARMED
           IN /\ (starts /\ NameInUse(name, warmup_commands)) => outcome # "ok"
              /\ standing' = IF starts /\ outcome = "ok" THEN standing \cup {name}
                             ELSE standing
        /\ IF run_ssh_command_raises(build, outcome)
           THEN /\ Put(t, Finish([task[t] EXCEPT !.remote = outcome], "ExecutionFailed"))
                /\ UNCHANGED function_state_registry
           ELSE /\ Put(t, Finish([task[t] EXCEPT !.remote = outcome], "ok"))
                /\ function_state_registry' =
                     [function_state_registry EXCEPT ![task[t].f] =
                         SetState(@, task[t].node, WarmOp(task[t]))]
        /\ UNCHANGED <<config, infos, started, function_registry, node_registry, metrics_log, rr>>

PolicyAfterWarmHit_Consulted(policy, nodes) == RRAdvance(RRRefresh(policy, nodes))

\* the default policy object once WarmedFirstPolicy or PreWarmedFirstPolicy has
\* answered from function_state_registry: they return without calling it
PolicyAfterWarmHit(policy, nodes) == policy

\* POST /functions/invoke/{function_name}, up to its first await
invoke_function ==
    \E t \in Tasks, f \in FuncNames, unique_id \in 1..limits.ids :
        /\ LET rec == [IdleTask EXCEPT !.kind = "invoke", !.f = f, !.uuid = unique_id,
                                       !.obs = function_state_registry[f]]
               w == WarmedFirstPolicy_select_node(function_state_registry[f])
           IN IF function_not_found(f)
              THEN /\ Open(t, Finish(rec, "NotFound"))
                   /\ rr' = rr
              ELSE IF node_registry = <<>>
              THEN /\ Open(t, Finish([rec EXCEPT !.polNone = TRUE], "NoNodesAvailable"))
                   /\ rr' = rr
              ELSE IF w.hit
              THEN /\ Open(t, [rec EXCEPT !.pc = "exec", !.node = w.node,
                                         !.mode = w.mode, !.execs = 1,
                                         !.docker = DockerCommand(w.mode),
                                         !.cname = ContainerName(rec, w.mode, w.node)])
                   /\ rr' = PolicyAfterWarmHit(rr, node_registry)
              ELSE LET s == StartSelect([rec EXCEPT !.consulted = TRUE])
                   IN /\ Open(t, s.rec)
                      /\ rr' = s.rr
        /\ UNCHANGED <<config, standing, infos, function_registry, node_registry,
                       function_state_registry, metrics_log>>

\* RoundRobinPolicy of policies.py: the probe of the node under the cursor
\* comes back
rr_probe_return ==
    \E t \in Tasks, reply \in SysReplies :
        /\ task[t].pc = "rr_probe"
        /\ LET got == RRJudge(task[t].node, reply, task[t].f)
           IN IF got.node # NoNode
              THEN /\ Put(t, Selected(task[t], got))
                   /\ rr' = rr
              ELSE IF task[t].left = 1
              THEN /\ Put(t, Selected([task[t] EXCEPT !.skips = TRUE], NoSelection))
                   /\ rr' = rr
              ELSE /\ Put(t, [task[t] EXCEPT !.node = RRPeek(rr), !.left = @ - 1,
                                              !.skips = TRUE,
                                              !.probed = @ \cup {task[t].node}])
                   /\ rr' = RRAdvance(rr)
        /\ UNCHANGED <<config, standing, infos, started, function_registry, node_registry, function_state_registry,
                       metrics_log>>

\* LeastUsedPolicy: asyncio.gather over the probes comes back
gather_return ==
    \E t \in Tasks :
        /\ task[t].pc = "gather"
        /\ \E replies \in [1..Len(task[t].snap) -> SysReplies] :
             Put(t, Selected(task[t],
                             LU_select_node(build, task[t].snap, replies, task[t].f)))
        /\ UNCHANGED <<config, standing, infos, started, function_registry, node_registry, function_state_registry,
                       metrics_log, rr>>

\* the docker exec / docker run command comes back; then write_metrics
exec_return ==
    \E t \in Tasks, outcome \in CmdOutcomes :
        /\ task[t].pc = "exec"
        /\ LET rec == [task[t] EXCEPT !.remote = outcome]
           IN /\ IF run_ssh_command_raises(build, outcome)
                 THEN /\ Put(t, AfterFailure(rec))
                      /\ UNCHANGED metrics_log
                 ELSE IF rec.metric.some
                 THEN /\ Put(t, Finish(rec, "ok"))
                      /\ metrics_log' = Append(metrics_log, LogRecord(rec.metric, rec.mode))
                 ELSE IF build = "main"
                 THEN \* write_metrics reads node_info, a name it does not define
                      /\ Put(t, AfterFailure(rec))
                      /\ UNCHANGED metrics_log
                 ELSE /\ Put(t, [rec EXCEPT !.pc = "log_probe"])
                      /\ UNCHANGED metrics_log
              /\ function_state_registry' =
                    StateAfterInvocation(function_state_registry, rec)
        /\ UNCHANGED <<config, standing, infos, started, function_registry, node_registry, rr>>

\* log_invocation_metrics: the probe made for the record comes back
log_probe_return ==
    \E t \in Tasks, reply \in SysReplies :
        /\ task[t].pc = "log_probe"
        /\ Put(t, Finish(task[t], "ok"))
        /\ metrics_log' = Append(metrics_log,
                                 LogRecord(ProbedEntry(task[t].f, task[t].node, reply),
                                           task[t].mode))
        /\ function_state_registry' =
              StateAfterInvocation(function_state_registry, task[t])
        /\ UNCHANGED <<config, standing, infos, started, function_registry, node_registry, rr>>

Next ==
    \/ register_node
    \/ register_function
    \/ warm_function_on_node
    \/ warm_return
    \/ invoke_function
    \/ rr_probe_return
    \/ gather_return
    \/ exec_return
    \/ log_probe_return

Spec == Init /\ [][Next]_vars

\* ------------------------------------------------ the gateway as configured
\* main.py as it stands but for the scheduler: WARMING_TYPE is cold, so a
\* registration schedules nothing. The nodes n1, n2 and the function are
\* registered, and the invocations are made one after the other.
ScenarioInit ==
    /\ build \in Builds
    /\ scheduler = "RoundRobin"
    /\ warming_type = COLD
    /\ function_registry = {1}
    /\ node_registry \in {<<1, 2>>, <<2, 1>>}
    /\ function_state_registry = [f \in FuncNames |-> <<>>]
    /\ metrics_log = <<>>
    /\ rr = RRInit
    /\ task = [t \in 1..1 |-> IdleTask]
    /\ done = <<>>
    /\ limits = [keep |-> ScenarioInvocations, requests |-> ScenarioInvocations,
                 descs |-> 1,
                 ids |-> 1]
    /\ started = 0
    /\ function_info = [f \in FuncNames |-> IF f = 1 THEN 1 ELSE 0]
    /\ node_info = [n \in NodeNames |-> IF n \in {1, 2} THEN 1 ELSE 0]
    /\ standing = {}
    /\ hist = NoHist
    /\ call = NoCall

ScenarioNext ==
    \/ invoke_function
    \/ rr_probe_return
    \/ exec_return

SpecScenario == ScenarioInit /\ [][ScenarioNext]_vars

\* One node, one function, and one more client than CONCURRENCY_LIMIT, each
\* posting one invocation without waiting for the others.
GateInit ==
    /\ build \in Builds
    /\ scheduler = "RoundRobin"
    /\ warming_type = COLD
    /\ function_registry = {1}
    /\ node_registry = <<1>>
    /\ function_state_registry = [f \in FuncNames |-> <<>>]
    /\ metrics_log = <<>>
    /\ rr = RRInit
    /\ task = [t \in 1..(CONCURRENCY_LIMIT + 1) |-> IdleTask]
    /\ done = <<>>
    /\ limits = [keep |-> 1, requests |-> CONCURRENCY_LIMIT + 1, descs |-> 1,
                 ids |-> 1]
    /\ started = 0
    /\ function_info = [f \in FuncNames |-> IF f = 1 THEN 1 ELSE 0]
    /\ node_info = [n \in NodeNames |-> IF n = 1 THEN 1 ELSE 0]
    /\ standing = {}
    /\ hist = NoHist
    /\ call = NoCall

GateNext ==
    \/ invoke_function
    \/ rr_probe_return
    \/ exec_return

SpecGate == GateInit /\ [][GateNext]_vars

GateClients == 1..(CONCURRENCY_LIMIT + 1)

\* a command or probe some request awaits comes back
GateReturn == rr_probe_return \/ exec_return

\* every command and probe comes back, and the event loop resumes the
\* coroutine that awaits it: while a request is suspended one of them is resumed
SpecGateFair == SpecGate /\ WF_vars(GateReturn)

\* Two invocations of f in flight that both found (f, n1) PRE_WARMED: each
\* is suspended at its docker run command.
RacingInvocation(unique_id) ==
    [IdleTask EXCEPT !.kind = "invoke", !.f = 1, !.uuid = unique_id,
                     !.obs = <<[node |-> 1, state |-> PRE_WARMED]>>,
                     !.pc = "exec", !.node = 1, !.mode = PRE_WARMED, !.execs = 1,
                     !.docker = DockerCommand(PRE_WARMED),
                     !.cname = run_container_name(1, unique_id)]

RaceInit ==
    /\ build \in Builds
    /\ scheduler \in {"RoundRobin", "LeastUsed"}
    /\ warming_type \in {COLD, PRE_WARMED}
    /\ function_registry = {1}
    /\ node_registry \in {<<1>>, <<1, 2>>}
    /\ function_info = [f \in FuncNames |-> IF f = 1 THEN 1 ELSE 0]
    /\ node_info = [n \in NodeNames |->
                       IF \E i \in 1..Len(node_registry) : node_registry[i] = n
                       THEN 1 ELSE 0]
    /\ function_state_registry =
          [f \in FuncNames |-> IF f = 1 THEN <<[node |-> 1, state |-> PRE_WARMED]>>
                                ELSE <<>>]
    /\ metrics_log = <<>>
    /\ rr = RRInit
    /\ \E i, j \in 1..RaceIds :
          task = [t \in 1..2 |-> RacingInvocation(IF t = 1 THEN i ELSE j)]
    /\ done = <<>>
    /\ limits = [keep |-> 2, requests |-> 3, descs |-> 1, ids |-> RaceIds]
    /\ started = 3
    /\ standing = {}
    /\ hist = NoHist
    /\ call = NoCall

RaceNext ==
    \/ exec_return
    \/ log_probe_return

SpecRace == RaceInit /\ [][RaceNext]_vars

\* Registrations only, with more than one descriptor to register a name with.
RegistryInit ==
    /\ build \in Builds
    /\ scheduler \in {"RoundRobin", "LeastUsed"}
    /\ warming_type \in {COLD, PRE_WARMED, WARMED}
    /\ function_registry = {}
    /\ node_registry = <<>>
    /\ function_info = [f \in FuncNames |-> 0]
    /\ node_info = [n \in NodeNames |-> 0]
    /\ function_state_registry = [f \in FuncNames |-> <<>>]
    /\ metrics_log = <<>>
    /\ rr = RRInit
    /\ task = [t \in 1..MaxTasks |-> IdleTask]
    /\ done = <<>>
    /\ limits = [keep |-> 1, requests |-> NumFuncs, descs |-> MaxDescs,
                 ids |-> 1]
    /\ started = 0
    /\ standing = {}
    /\ hist = NoHist
    /\ call = NoCall

RegistryNext ==
    \/ register_node
    \/ register_function
    \/ rr_probe_return
    \/ gather_return
    \/ warm_return

SpecRegistry == RegistryInit /\ [][RegistryNext]_vars

\* ------------------------------------------------- claims on RoundRobinPolicy
IsRotation(run, names) ==
    \E k \in 0..(Len(names) - 1) :
        \A i \in 1..Len(names) : run[i] = names[((k + i - 1) % Len(names)) + 1]

\* C4: over a node set of size N that does not change, with no node rejected
\* by the filter, N selections in a row return each node exactly once, in
\* ascending name order from the cursor position (a rotation of the sorted
\* names).
C4_RoundRobinFairness ==
    (hist.names # <<>> /\ Len(hist.run) = Len(hist.names))
        => IsRotation(hist.run, hist.names)

C4_Witness ==
    /\ Len(hist.names) = 3
    /\ hist.run = <<2, 3, 1>>

\* C5: when the names passed to select_node differ from those of the previous
\* selection, the selection returns the first node of the new sorted order
\* that passes the filter, whatever the cursor was.
C5_RoundRobinResetOnChurn ==
    hist.changed => hist.node = hist.firstPassing

C5_Witness ==
    /\ hist.changed
    /\ hist.prevIdx > 0
    /\ Len(hist.names) >= 2
    /\ hist.node = hist.names[1]

\* -------------------------------------------------- claims on LeastUsedPolicy
CallIdx == 1..Len(call.nodes)
Reachable(i) == call.replies[i].ok
Complete(i) == call.replies[i].cpu # Missing /\ call.replies[i].ram # Missing
\* not above the RAM threshold
UnderThreshold(i) == call.replies[i].ram # Missing /\ call.replies[i].ram <= RAM_THRESHOLD
EligibleNode(i) == Reachable(i) /\ UnderThreshold(i)
\* (cpu_usage + ram_usage) / 2, doubled
Score2(i) == call.replies[i].cpu + call.replies[i].ram

\* C6: with every node reachable and reporting both fields, the node returned
\* is an eligible node of minimal mean load (cpu_usage + ram_usage) / 2,
\* whatever the registration order.
C6_LeastUsedMinimalMeanLoad ==
    (/\ call.made
     /\ \A i \in CallIdx : Reachable(i) /\ Complete(i)
     /\ \E i \in CallIdx : EligibleNode(i))
    => \E i \in CallIdx :
          /\ EligibleNode(i)
          /\ call.result.node = call.nodes[i]
          /\ \A j \in CallIdx : EligibleNode(j) => Score2(i) <= Score2(j)

\* C7: LeastUsedPolicy never returns a node whose probed ram_usage is above the
\* threshold; if it is the only node, no node is returned.
C7_RamThresholdExclusion ==
    call.made =>
        \A i \in CallIdx :
            (Reachable(i) /\ ~UnderThreshold(i)) => call.result.node # call.nodes[i]

\* C8: when the probe fails for some but not all nodes, LeastUsedPolicy of
\* policies.py returns a node among the reachable eligible ones (one exists),
\* and in either build never a node whose probe failed.
C8_PartialFailureIsolation ==
    (/\ call.made
     /\ \E i \in CallIdx : ~Reachable(i)
     /\ \E i \in CallIdx : Reachable(i))
    => /\ \A i \in CallIdx : ~Reachable(i) => call.result.node # call.nodes[i]
       /\ build = "modules" =>
            /\ (\E i \in CallIdx : EligibleNode(i)) => call.result.node # NoNode
            /\ call.result.node # NoNode =>
                 \E i \in CallIdx : EligibleNode(i) /\ call.result.node = call.nodes[i]

C8_Witness ==
    /\ call.made
    /\ build = "modules"
    /\ Len(call.nodes) = 3
    /\ Cardinality({i \in CallIdx : ~Reachable(i)}) = 1
    /\ ~Reachable(1)
    /\ call.result.node = call.nodes[3]

\* ------------------------------------------------------ claims on the gateway
\* the invocations in flight and those answered last
Invocations ==
    {task[t] : t \in {u \in Tasks : task[u].kind = "invoke"}}
        \cup {done[i] : i \in {j \in 1..Len(done) : done[j].kind = "invoke"}}

\* node n has state st among the entries seen when the invocation was scheduled
SawState(r, n, st) == \E i \in 1..Len(r.obs) : r.obs[i] = [node |-> n, state |-> st]

\* C1: an invocation scheduled while some node is WARMED for its function runs
\* on a WARMED node in mode WARMED, without the default policy; one in mode
\* PRE_WARMED was scheduled with no WARMED node and runs on a PRE_WARMED node;
\* the default policy is consulted only with neither kind of node.
C1_PriorityChain ==
    \A r \in Invocations :
        /\ HasState(r.obs, WARMED) =>
              /\ r.mode = WARMED
              /\ SawState(r, r.node, WARMED)
              /\ ~r.consulted
        /\ r.mode = PRE_WARMED =>
              /\ ~HasState(r.obs, WARMED)
              /\ SawState(r, r.node, PRE_WARMED)
              /\ ~r.consulted
        /\ r.consulted => ~HasState(r.obs, WARMED) /\ ~HasState(r.obs, PRE_WARMED)

C1_Witness ==
    \E r \in Invocations :
        /\ HasState(r.obs, WARMED)
        /\ HasState(r.obs, PRE_WARMED)
        /\ r.obs[1].state = PRE_WARMED
        /\ r.mode = WARMED
        /\ r.pc = "exec"

\* C2: the step that answers a successful invocation which ran on n in mode
\* PRE_WARMED leaves (f, n) COLD.
C2_PreWarmedConsumedOnce ==
    [][\A t \in Tasks :
          (/\ task[t].kind = "invoke"
           /\ task[t].mode = PRE_WARMED
           /\ task'[t].pc = "idle"
           /\ done' # <<>>
           /\ done'[Len(done')] = Finish(task[t], "ok"))
          => \A i \in 1..Len(function_state_registry'[task[t].f]) :
                function_state_registry'[task[t].f][i].node = task[t].node
                    => function_state_registry'[task[t].f][i].state = COLD]_vars

\* C3: at most CONCURRENCY_LIMIT invocations are in the remote-execution stage
\* at the same time.
C3_AdmissionBound ==
    Cardinality({t \in Tasks : task[t].kind = "invoke" /\ task[t].pc = "exec"})
        <= CONCURRENCY_LIMIT

\* the scenario's invocations of f, all answered
ScenarioOver ==
    /\ started = ScenarioInvocations
    /\ Len(done) = ScenarioInvocations
    /\ \A k \in 1..Len(done) : done[k].kind = "invoke" /\ done[k].f = 1
\* n1, n2, n1, ...
ScenarioNode(k) == IF k % 2 = 1 THEN 1 ELSE 2
ScenarioNoSkip == \A k \in 1..Len(done) : ~done[k].skips
ScenarioColdLog == \A i \in 1..Len(metrics_log) : Category(metrics_log[i].mode) = "Cold"

C10_NoEligibleNode ==
    \A r \in Invocations :
        r.polNone => /\ r.pc = "done"
                     /\ r.outcome = "NoNodesAvailable"
                     /\ r.execs = 0
                     /\ r.node = NoNode

C10_Witness ==
    \E r \in Invocations :
        /\ r.polNone
        /\ r.consulted
        /\ node_registry # <<>>
        /\ r.outcome = "NoNodesAvailable"

\* ------------------------------------------------------- claims on warming
\* the request answered by this step, if the step answers one
Answered(t) == task[t].pc # "idle" /\ task'[t].pc = "idle"
LastDone == done[Len(done)]

\* C11: when the remote command of a warming operation fails (non-zero exit
\* or connection error), the step that ends the operation leaves every entry
\* of function_state_registry as it was.
C11_WarmingFailureKeepsState ==
    [][\A t \in Tasks :
          (/\ task[t].pc = "warm_ssh"
           /\ Answered(t)
           /\ LastDone'.remote \in {"nonzero", "connerr"})
          => function_state_registry' = function_state_registry]_vars

WarmOutcomes == {"ok", "NotFound", "ExecutionFailed"}

\* C12: what the caller of prewarm / warmup receives tells the three outcomes
\* apart (success, NotFound, ExecutionFailed), and tells success only when the
\* remote command succeeded.
C12_WarmingOutcomeReported ==
    \A i \in 1..Len(done) :
        done[i].kind \in {"prewarm", "warmup"} =>
            /\ \A o \in WarmOutcomes :
                  Reply(done[i].kind, o) = Reply(done[i].kind, done[i].outcome)
                      => o = done[i].outcome
            /\ done[i].outcome = "ok" => done[i].remote = "ok"

\* ------------------------------------------------- claims on registrations
\* a step that is a registration answered at once: it opens no coroutine
RegistrationStep ==
    /\ task' = task
    /\ started' = started
    /\ done' # <<>>
    /\ LastDone'.kind \in {"register", "register_node"}
NameTaken ==
    IF LastDone'.kind = "register"
    THEN LastDone'.f \in function_registry
    ELSE \E i \in 1..Len(node_registry) : node_registry[i] = LastDone'.node

CommandFailed(r) == r.remote \in {"nonzero", "connerr"}

\* C14: an invocation whose execution command failed (non-zero exit or
\* connection error) is answered ExecutionFailed (HTTP 500), never a success.
C14_FailurePropagation ==
    \A i \in 1..Len(done) :
        (done[i].kind = "invoke" /\ CommandFailed(done[i]))
            => /\ done[i].outcome = "ExecutionFailed"
               /\ Reply(done[i].kind, done[i].outcome) = "500"

\* C15: an invocation issues at most one execution command, on one node; one
\* whose command failed has issued exactly that one and is answered.
C15_AtMostOneAttempt ==
    \A r \in Invocations :
        /\ r.execs <= 1
        /\ r.execs = 1 => r.node # NoNode /\ r.docker = DockerCommand(r.mode)
        /\ CommandFailed(r) => r.execs = 1 /\ r.pc = "done"

C15_Witness ==
    \E r \in Invocations :
        /\ r.remote = "connerr"
        /\ r.execs = 1
        /\ r.consulted
        /\ Len(node_registry) = 2
        /\ Reply(r.kind, r.outcome) = "500"

\* C16: the step that answers an invocation which issued its execution
\* command appends one record to metrics_log, whether the command succeeded
\* or not; every step keeps the records already there.
C16_OneRecordPerAttempt ==
    [][/\ \A t \in Tasks :
             (task[t].kind = "invoke" /\ task[t].execs = 1 /\ Answered(t))
                 => Len(metrics_log') = Len(metrics_log) + 1
       /\ Len(metrics_log') >= Len(metrics_log)
       /\ SubSeq(metrics_log', 1, Len(metrics_log)) = metrics_log]_vars

\* C17: the admission slots held are as many as the invocations inside the
\* workflow, hence none when no invocation is in flight.
C17_GateReleased ==
    HeldSlots = Cardinality({t \in Tasks : task[t].kind = "invoke" /\ InFlight(t)})

\* the request opened by this step in slot t: still in the slot, or answered
\* at once
Opened(t) == IF task'[t].pc # "idle" THEN task'[t] ELSE LastDone'

\* C18: the step that serves an invocation of a name that is not in
\* function_registry answers NotFound (HTTP 404) at once: no node selected,
\* no command issued, the round-robin cursor, function_state_registry, the
\* registries and metrics_log as they were.
C18_UnknownFunction ==
    [][\A t \in Tasks :
          (/\ started' = started + 1
           /\ NextTask(t)
           /\ Opened(t).kind = "invoke"
           /\ Opened(t).f \notin function_registry)
          => /\ task' = task
             /\ LastDone'.outcome = "NotFound"
             /\ Reply(LastDone'.kind, LastDone'.outcome) = "404"
             /\ LastDone'.node = NoNode
             /\ LastDone'.execs = 0
             /\ ~LastDone'.consulted
             /\ UNCHANGED <<rr, function_state_registry, metrics_log, function_registry,
                            node_registry, infos>>]_vars

C18_Witness ==
    /\ done # <<>>
    /\ LastDone.kind = "invoke"
    /\ LastDone.outcome = "NotFound"
    /\ LastDone.f \notin function_registry
    /\ node_registry # <<>>
    /\ scheduler = "RoundRobin"

\* the stage of the chain that chose the node of invocation r
ChosenByWarmed(r) == ~r.consulted /\ HasState(r.obs, WARMED)
ChosenByPreWarmed(r) == ~r.consulted /\ ~HasState(r.obs, WARMED) /\ HasState(r.obs, PRE_WARMED)

InvocationStep ==
    \/ \E t \in Tasks :
          /\ task'[t] # task[t]
          /\ task[t].kind = "invoke" \/ task'[t].kind = "invoke"
    \/ /\ started' # started
       /\ task' = task
       /\ LastDone'.kind = "invoke"

\* C20: a pair (f, n) that is WARMED is still WARMED after any step of any
\* invocation.
C20_WarmedStable ==
    [][InvocationStep =>
          \A f \in FuncNames, n \in NodeNames :
              StateOf(f, n) = WARMED => StateOf(f, n)' = WARMED]_vars

C20_Witness ==
    /\ done # <<>>
    /\ LastDone.kind = "invoke"
    /\ LastDone.mode = WARMED
    /\ LastDone.outcome = "ok"
    /\ StateOf(LastDone.f, LastDone.node) = WARMED
    /\ Len(metrics_log) = 1

\* ------------------------------------------------- claims on the warm state
WarmStateMachine == {<<COLD, PRE_WARMED>>, <<COLD, WARMED>>, <<PRE_WARMED, COLD>>}

\* C21: every change of the state of a pair (f, n) is COLD to PRE_WARMED, COLD
\* to WARMED or PRE_WARMED to COLD; a WARMED pair never becomes PRE_WARMED.
C21_WarmStateTransitions ==
    [][\A f \in FuncNames, n \in NodeNames :
          StateOf(f, n)' # StateOf(f, n)
              => <<StateOf(f, n), StateOf(f, n)'>> \in WarmStateMachine]_vars

\* C22: a warmup of (f, n) whose node answers succeeds and sets WARMED also
\* when a standing container of that name is there from an earlier warmup.
C22_WarmupRepeatable ==
    [][\A t \in Tasks, f \in FuncNames, n \in NodeNames :
          (/\ task[t].pc = "warm_ssh"
           /\ WarmOp(task[t]) = WARMED
           /\ task[t].f = f
           /\ task[t].node = n
           /\ warmup_container_name(f, n) \in standing
           /\ Answered(t)
           /\ LastDone'.remote # "connerr")
          => /\ LastDone'.remote = "ok"
             /\ LastDone'.outcome = "ok"
             /\ StateOf(f, n)' = WARMED]_vars

\* C23: once two invocations that both found (f, n1) PRE_WARMED have both
\* succeeded, (f, n1) is COLD.
C23_RacingConsumption ==
    (/\ \A t \in Tasks : task[t].pc = "idle"
     /\ Len(done) = 2
     /\ \A i \in 1..Len(done) :
           /\ done[i].kind = "invoke"
           /\ done[i].mode = PRE_WARMED
           /\ SawState(done[i], 1, PRE_WARMED)
           /\ done[i].outcome = "ok")
    => StateOf(1, 1) = COLD

\* ------------------------------------------ claims on concurrent selections
\* C24: a select_node call of the RoundRobinPolicy of policies.py that returns
\* no node has probed every node of the names it was called with.
C24_RoundRobinExaminesAll ==
    [][\A t \in Tasks :
          (task[t].pc = "rr_probe" /\ Answered(t))
              => \A i \in 1..Len(task[t].snap) :
                    task[t].snap[i] \in task[t].probed \cup {task[t].node}]_vars

\* ------------------------------------------------------ claims on containers
\* C25: an invocation in mode WARMED on (f, n) issues one docker exec against
\* the name warmup gives the standing container of (f, n); no step of an
\* invocation starts or removes a standing container.
C25_WarmedReusesContainer ==
    [][InvocationStep =>
          /\ standing' = standing
          /\ \A t \in Tasks :
                (task'[t].kind = "invoke" /\ task'[t].mode = WARMED)
                    => /\ task'[t].execs = 1
                       /\ task'[t].docker = "exec"
                       /\ task'[t].cname =
                              warmup_container_name(task'[t].f, task'[t].node)]_vars

C25_Witness ==
    \E t \in Tasks :
        /\ task[t].kind = "invoke"
        /\ task[t].pc = "exec"
        /\ task[t].mode = WARMED
        /\ task[t].cname \in standing
        /\ Cardinality(standing) = 1

\* the docker run --rm commands issued: by the requests in flight (slot t) and
\* by those answered last (position i of done)
FreshInFlight == {t \in Tasks : task[t].kind = "invoke" /\ task[t].docker = "run"}
FreshDone == {i \in 1..Len(done) : done[i].kind = "invoke" /\ done[i].docker = "run"}

\* C26: two invocations run by docker run --rm never use the same container
\* name, and none uses the name of a standing container.
C26_FreshNamesDistinct ==
    /\ \A t, u \in FreshInFlight : t # u => task[t].cname # task[u].cname
    /\ \A t \in FreshInFlight, i \in FreshDone : task[t].cname # done[i].cname
    /\ \A i, j \in FreshDone : i # j => done[i].cname # done[j].cname
    /\ \A t \in FreshInFlight : task[t].cname \notin standing
    /\ \A i \in FreshDone : done[i].cname \notin standing

\* C27: an invocation scheduled without a metrics entry (WARMED or PRE_WARMED)
\* whose command succeeded is answered as a success and appends one record,
\* whatever the probe made for the record gives; one scheduled with an entry
\* appends that entry's values without another probe.
C27_LoggingProbeBestEffort ==
    [][\A t \in Tasks :
          (task[t].kind = "invoke" /\ Answered(t) /\ LastDone'.remote = "ok")
              => /\ LastDone'.outcome = "ok"
                 /\ Len(metrics_log') = Len(metrics_log) + 1
                 /\ task[t].metric.some =>
                       /\ task[t].pc = "exec"
                       /\ metrics_log'[Len(metrics_log')].cpu = task[t].metric.cpu
                       /\ metrics_log'[Len(metrics_log')].ram = task[t].metric.ram]_vars

\* ------------------------------------------- claims on missing fields and ties
Incomplete(i) == call.replies[i].cpu = Missing \/ call.replies[i].ram = Missing
CompleteUnder(i) ==
    Reachable(i) /\ Complete(i) /\ call.replies[i].ram < RAM_THRESHOLD

\* C28: a reachable node whose payload lacks cpu_usage or ram_usage is never
\* returned by LeastUsedPolicy while another reachable node with both fields
\* and ram_usage under the threshold exists.
C28_MissingFieldsMaximalLoad ==
    call.made =>
        \A i \in CallIdx :
            (/\ Reachable(i)
             /\ Incomplete(i)
             /\ \E j \in CallIdx : j # i /\ CompleteUnder(j))
            => call.result.node # call.nodes[i]

C28_Witness ==
    /\ call.made
    /\ Len(call.nodes) = 2
    /\ call.replies[1] = OkReply(5, Missing)
    /\ call.replies[2] = OkReply(10, 5)
    /\ call.result.node = call.nodes[2]

\* the eligible nodes of minimal mean load
MinimalScore ==
    {i \in CallIdx : EligibleNode(i) /\ \A j \in CallIdx : EligibleNode(j) => Score2(i) <= Score2(j)}

\* C29: with every node reachable and reporting both fields, when several
\* eligible nodes share the minimal load score the node returned is the first
\* of them in registration order.
C29_DeterministicTieBreak ==
    (/\ call.made
     /\ \A i \in CallIdx : Reachable(i) /\ Complete(i)
     /\ Cardinality(MinimalScore) >= 2)
    => \E i \in MinimalScore :
          /\ \A j \in MinimalScore : i <= j
          /\ call.result.node = call.nodes[i]

\* C30: at most CONCURRENCY_LIMIT invocations are at the same time between the
\* start of node selection and the emission of their record.
C30_GateCoversWorkflow ==
    Cardinality({t \in Tasks : task[t].kind = "invoke" /\ InFlight(t)})
        <= CONCURRENCY_LIMIT

Registered(f, n) ==
    /\ f \in function_registry
    /\ \E i \in 1..Len(node_registry) : node_registry[i] = n
    /\ node_info[n] # 0

\* C32: every pair (f, n) that is PRE_WARMED or WARMED has f in the function
\* registry and n in the node registry with its connection parameters, and so
\* has the node of every invocation scheduled by the warmed or pre-warmed stage.
C32_WarmKeysRegistered ==
    /\ \A f \in FuncNames, n \in NodeNames :
          StateOf(f, n) \in {PRE_WARMED, WARMED} => Registered(f, n)
    /\ \A t \in Tasks :
          (task[t].kind = "invoke" /\ task[t].pc = "exec" /\ ~task[t].consulted)
              => Registered(task[t].f, task[t].node)

C32_Witness ==
    \E t \in Tasks :
        /\ task[t].kind = "invoke"
        /\ task[t].pc = "exec"
        /\ ~task[t].consulted
        /\ task[t].mode = PRE_WARMED
        /\ StateOf(task[t].f, task[t].node) = PRE_WARMED
        /\ Len(node_registry) = NumNodes

WarmServed(rec) == rec.kind = "invoke" /\ rec.mode \in {WARMED, PRE_WARMED}

\* C33: an invocation served by the WARMED or PRE_WARMED stage goes to its
\* execution without a scheduling probe and without a snapshot, and none of its
\* steps changes the round-robin cursor or the cached node list.
C33_WarmHitLeavesPolicy ==
    [][\A t \in Tasks :
          /\ (task'[t] # task[t] /\ (WarmServed(task[t]) \/ WarmServed(task'[t])))
                => rr' = rr
          /\ WarmServed(task'[t])
                => /\ task'[t].pc \in {"exec", "log_probe"}
                   /\ ~task'[t].consulted
                   /\ ~task'[t].metric.some
                   /\ task'[t].probed = {}]_vars

C33_Witness ==
    \E t \in Tasks :
        /\ WarmServed(task[t])
        /\ task[t].pc = "exec"
        /\ scheduler = "RoundRobin"
        /\ Len(rr.cache) = NumNodes
        /\ rr.idx = 1

\* ---------------------------------------------- claims on function registration
\* the step ends the warming a registration triggered, with no node selected or
\* with a remote command that failed
RegistrationWarmingFailed ==
    \/ \E t \in Tasks :
          /\ task[t].kind = "register"
          /\ Answered(t)
          /\ LastDone'.outcome = "NoNode" \/ LastDone'.remote \in {"nonzero", "connerr"}
    \/ /\ started' = started + 1
       /\ task' = task
       /\ LastDone'.kind = "register"
       /\ LastDone'.outcome = "NoNode"

\* C34: a function is in the registry, with its descriptor, while the warming
\* its registration triggered is going on; when that warming selects no node
\* or its remote command fails the function stays registered and the warming
\* adds no entry for it to function_state_registry.
C34_RegistrationIndependent ==
    [][/\ \A t \in Tasks :
             (task'[t].kind = "register" /\ task'[t].pc # "idle")
                 => /\ task'[t].f \in function_registry'
                    /\ function_info'[task'[t].f] # 0
       /\ RegistrationWarmingFailed
             => /\ LastDone'.f \in function_registry'
                /\ function_info'[LastDone'.f] # 0
                /\ function_state_registry'[LastDone'.f]
                       = function_state_registry[LastDone'.f]]_vars

\* ------------------------------------------- claims on a failed execution
\* C35: the step that answers ExecutionFailed to an invocation scheduled in
\* PRE_WARMED mode on (f, n) changes no warm state: a pair that is PRE_WARMED
\* is PRE_WARMED afterwards.
C35_FailedPreWarmedKeepsEntry ==
    [][\A t \in Tasks, f \in FuncNames, n \in NodeNames :
          (/\ task[t].kind = "invoke"
           /\ task[t].mode = PRE_WARMED
           /\ task[t].f = f
           /\ task[t].node = n
           /\ Answered(t)
           /\ LastDone'.outcome = "ExecutionFailed")
          => /\ function_state_registry' = function_state_registry
             /\ StateOf(f, n) = PRE_WARMED => StateOf(f, n)' = PRE_WARMED]_vars

C35_Witness ==
    /\ Len(done) > 0
    /\ LastDone.kind = "invoke"
    /\ LastDone.mode = PRE_WARMED
    /\ LastDone.outcome = "ExecutionFailed"
    /\ LastDone.remote \in {"nonzero", "connerr"}
    /\ StateOf(LastDone.f, LastDone.node) = PRE_WARMED
====
